---- MODULE Spec2Model ----
(***************************************************************************)
(* Gesture drawing canvas (MemonM01/Drawing).  The repository holds four   *)
(* variants of the same page script:                                       *)
(*   "main"      src/main.js               open palm erases, pinch draws   *)
(*   "part_000"  src/unnamed/part_000      open palm erases, pinch draws   *)
(*   "part_001a" src/unnamed/part_001:1    simple fist erases, debug HUD   *)
(*   "part_001b" src/unnamed/part_001:207  wrist-distance fist erases      *)
(* A landmark is a point <<X, Y>> with integer X, Y in 0..GridN, standing  *)
(* for the normalized point (X / GridN, Y / GridN).  GridN is a power of   *)
(* two, so these coordinates and their differences are exact in the        *)
(* code's floating-point arithmetic.  A pixel point is <<x, y>> in units   *)
(* of 1/GridN pixel: <<x, y>> stands for the canvas point                  *)
(* (x / GridN, y / GridN).  A pixel of a canvas is named by its integer    *)
(* index <<i, j>> and covers the unit square [i, i+1] x [j, j+1].  The     *)
(* persistent surface is observed on the finite set Samples of pixels:     *)
(* ink is the set of sample pixels that carry any stroke colour.           *)
(***************************************************************************)
EXTENDS Integers, Sequences, FiniteSets, TLC

Variants == {"main", "part_000", "part_001a", "part_001b"}

\* Largest value of video.currentTime the environment produces.
MaxTime == 3

\* Landmark coordinates are integers in units of 1/GridN.
GridN == 32

Null == <<>>

\* ------------------------------------------------------------------------
\* Arithmetic helpers

Abs(x) == IF x < 0 THEN -x ELSE x

\* The product a * b of two naturals below 2^30 as << high, low >> with
\* a * b = high * 2^30 + low and low < 2^30 (the product itself may exceed
\* 32 bits), from the halves of a and b in base 2^15.
Mul(a, b) ==
    LET ah == a \div 32768
        al == a % 32768
        bh == b \div 32768
        bl == b % 32768
        lo == al * bl
        t1 == ah * bl + al * bh + (lo \div 32768)
    IN  << ah * bh + (t1 \div 32768), (t1 % 32768) * 32768 + (lo % 32768) >>

\* a * b < c * d, for naturals below 2^30.
ProdLess(a, b, c, d) ==
    LET x == Mul(a, b)
        y == Mul(c, d)
    IN  x[1] < y[1] \/ (x[1] = y[1] /\ x[2] < y[2])

\* Squared length of the difference of two points (dx*dx + dy*dy).
Dist2(a, b) == (a[1] - b[1]) * (a[1] - b[1]) + (a[2] - b[2]) * (a[2] - b[2])

\* dist(a, b) < num/1000 for landmarks a, b: Math.hypot(dx, dy) < num/1000
\* with dx = DX / GridN, that is Dist2 * 10^6 < num^2 * GridN^2.  For the
\* thresholds of the code (0.05, 0.085, 0.30, 0.35) the right-hand side is
\* no integer multiple of 10^6, so no grid distance equals a threshold and
\* the rounding of Math.hypot cannot decide the comparison.
distBelow(a, b, num) == ProdLess(Dist2(a, b), 1000000, num * num, GridN * GridN)

\* dist(a, b) > num/1000 for landmarks a, b.
distAbove(a, b, num) == ProdLess(num * num, GridN * GridN, Dist2(a, b), 1000000)

\* Landmark i (0..20) of a hand, a 21-tuple of landmarks.
LM(lm, i) == lm[i + 1]

\* { x: pt.x * canvas.width, y: pt.y * canvas.height }, not rounded: in
\* units of 1/GridN pixel the products are exact.
toPixel(pt, size) == << pt[1] * size[1], pt[2] * size[2] >>

\* ------------------------------------------------------------------------
\* Gestures

PinchThreshold(v) == IF v = "part_001a" THEN 85 ELSE 50

isPinching(v, lm) == distBelow(LM(lm, 4), LM(lm, 8), PinchThreshold(v))

\* Squared grid distance thumb tip - index tip, the quantity the debug HUD
\* of part_001a prints (as pinchDist).
pinchDistance(lm) == Dist2(LM(lm, 4), LM(lm, 8))

\* angleDeg(a, b, c) > 160:  cos = dot / (|ab| |cb| + 1e-9), clamped, and
\* acos(cos) > 160 deg  iff  cos < cos(160 deg) = -0.9396926...
\* iff  dot < 0 and dot^2 / (|ab|^2 |cb|^2) > cos(160 deg)^2 =
\* 0.88302222155...  A zero-length vector gives cos = 0.  The constant is
\* taken as 474068945 / 2^29 = 0.8830222208...: for landmarks in 0..GridN
\* no quotient dot^2 / (|ab|^2 |cb|^2) comes nearer than 2.3e-6 to
\* cos(160 deg)^2, which is far more than this approximation, the 1e-9 of
\* the denominator and the rounding of the code's arithmetic can move it.
angleDegOver160(a, b, c) ==
    LET abx == a[1] - b[1]
        aby == a[2] - b[2]
        cbx == c[1] - b[1]
        cby == c[2] - b[2]
        dot == abx * cbx + aby * cby
        m2  == (abx * abx + aby * aby) * (cbx * cbx + cby * cby)
    IN  /\ dot < 0
        /\ ProdLess(474068945, m2, dot * dot, 536870912)

fingerStraight(lm, mcp, pip, dip, tip) ==
    /\ angleDegOver160(LM(lm, mcp), LM(lm, pip), LM(lm, dip))
    /\ angleDegOver160(LM(lm, pip), LM(lm, dip), LM(lm, tip))

SpreadThreshold(v) == IF v = "part_000" THEN 300 ELSE 350

\* The value isOpenPalm returns when its body runs to completion.
isOpenPalm(v, lm) ==
    /\ fingerStraight(lm, 5, 6, 7, 8)
    /\ fingerStraight(lm, 9, 10, 11, 12)
    /\ fingerStraight(lm, 13, 14, 15, 16)
    /\ fingerStraight(lm, 17, 18, 19, 20)
    /\ distAbove(LM(lm, 8), LM(lm, 20), SpreadThreshold(v))

\* main.js calls fingerStraight, which main.js neither defines nor imports:
\* evaluating isOpenPalm there throws a ReferenceError on its first line.
isOpenPalmThrows(v) == v = "main"

\* The values dist(tip, wrist) > dist(pip, wrist) can take.  When the two
\* squared distances differ the comparison is decided.  When they are equal
\* and the two difference vectors have the same absolute components,
\* Math.hypot gets the same arguments up to sign and the comparison is
\* false.  When they are equal by different vectors, the two Math.hypot
\* results (implementation-approximated) may differ in the last place, in
\* either direction or not at all: both values are possible.
fingerExtended(lm, tipIdx, pipIdx) ==
    LET w  == LM(lm, 0)
        t  == LM(lm, tipIdx)
        p  == LM(lm, pipIdx)
        dt == Dist2(t, w)
        dp == Dist2(p, w)
    IN  IF dt # dp THEN { dt > dp }
        ELSE IF Abs(t[1] - w[1]) = Abs(p[1] - w[1]) /\ Abs(t[2] - w[2]) = Abs(p[2] - w[2])
        THEN { FALSE }
        ELSE BOOLEAN

\* The values isFist(lm) can take.
isFist(lm) ==
    { ~indexExt /\ ~middleExt /\ ~ringExt /\ ~pinkyExt /\ ~thumbExt :
        indexExt \in fingerExtended(lm, 8, 6),
        middleExt \in fingerExtended(lm, 12, 10),
        ringExt \in fingerExtended(lm, 16, 14),
        pinkyExt \in fingerExtended(lm, 20, 18),
        thumbExt \in fingerExtended(lm, 4, 3) }

isFistSimple(lm) ==
    /\ LM(lm, 8)[2] > LM(lm, 6)[2]
    /\ LM(lm, 12)[2] > LM(lm, 10)[2]
    /\ LM(lm, 16)[2] > LM(lm, 14)[2]
    /\ LM(lm, 20)[2] > LM(lm, 18)[2]

\* The values the erase gesture of each variant can take for the hand lm.
EraseGesture(v, lm) ==
    CASE v = "part_001a" -> { isFistSimple(lm) }
      [] v = "part_001b" -> isFist(lm)
      [] OTHER           -> { isOpenPalm(v, lm) }

\* The branch the loop body takes for a hand whose erase gesture evaluated
\* to erase and whose pinch test evaluated to pinch.
Classify(v, erase, pinch) ==
    CASE v = "main" ->
           IF isOpenPalmThrows(v) THEN "THROW"
           ELSE IF erase THEN "ERASE"
           ELSE IF pinch THEN "DRAW" ELSE "IDLE"
      [] v = "part_000" ->
           IF erase /\ ~pinch THEN "ERASE"
           ELSE IF pinch THEN "DRAW" ELSE "IDLE"
      [] v = "part_001a" ->
           IF erase THEN "ERASE"
           ELSE IF pinch THEN "DRAW" ELSE "IDLE"
      [] v = "part_001b" ->
           IF erase THEN "ERASE"
           ELSE IF pinch THEN "DRAW" ELSE "IDLE"

\* ------------------------------------------------------------------------
\* Hands the pose provider reports.  A shape is a 21-tuple relative to its
\* index tip (landmark 8 at <<0, 0>>); a hand is a shape moved so that the
\* index tip lies on one of TipPositions.

Fingers ==   \* landmarks 5..20 of an upright hand, fingers straight
    << <<0, 9>>,  <<0, 6>>,  <<0, 3>>,  <<0, 0>>,
       <<5, 9>>,  <<5, 5>>,  <<5, 2>>,  <<5, -2>>,
       <<10, 9>>, <<10, 6>>, <<10, 3>>, <<10, 0>>,
       <<15, 10>>, <<15, 7>>, <<15, 4>>, <<15, 1>> >>

NarrowFingers ==   \* the same, index tip to pinky tip 0.314 apart
    << <<0, 9>>,  <<0, 6>>,  <<0, 3>>,  <<0, 0>>,
       <<3, 9>>,  <<3, 5>>,  <<3, 2>>,  <<3, -2>>,
       <<7, 9>>,  <<7, 6>>,  <<7, 3>>,  <<7, 0>>,
       <<10, 10>>, <<10, 7>>, <<10, 4>>, <<10, 1>> >>

BentFingers ==   \* index bent at the PIP joint but tip above it, rest curled
    << <<2, 9>>,  <<3, 5>>,  <<0, 3>>,  <<0, 0>>,
       <<5, 9>>,  <<5, 5>>,  <<6, 7>>,  <<5, 8>>,
       <<9, 9>>,  <<9, 6>>,  <<10, 8>>, <<9, 9>>,
       <<13, 10>>, <<13, 7>>, <<14, 9>>, <<13, 10>> >>

CurledFingers ==   \* every tip below its PIP joint and nearer the wrist
    << <<2, 3>>,  <<1, -5>>,  <<-1, -3>>, <<0, 0>>,
       <<5, 3>>,  <<5, -5>>,  <<6, -2>>,  <<5, 1>>,
       <<9, 3>>,  <<9, -5>>,  <<10, -2>>, <<9, 1>>,
       <<13, 4>>, <<13, -4>>, <<14, -1>>, <<13, 1>> >>

\* wrist, thumb CMC, thumb MCP, thumb IP, thumb tip, then the fingers
Shape(wrist, ip, thumbTip, fingers) ==
    << wrist, <<3, wrist[2] - 2>>, <<-1, wrist[2] - 5>>, ip, thumbTip >> \o fingers

Shapes ==
    [ Palm       |-> Shape(<<7, 20>>, <<-4, 12>>, <<-6, 9>>, Fingers),
      PalmPinch  |-> Shape(<<7, 20>>, <<-2, 5>>,  <<-1, 1>>, Fingers),
      PalmNarrow |-> Shape(<<7, 20>>, <<-4, 12>>, <<-6, 9>>, NarrowFingers),
      Pinch      |-> Shape(<<7, 20>>, <<-2, 5>>,  <<1, 1>>,  BentFingers),
      PinchWide  |-> Shape(<<7, 20>>, <<-2, 5>>,  <<2, 1>>,  BentFingers),
      Relaxed    |-> Shape(<<7, 20>>, <<-4, 12>>, <<-6, 9>>, BentFingers),
      Fist       |-> Shape(<<7, 14>>, <<-3, 4>>,  <<-1, 6>>, CurledFingers),
      FistPinch  |-> Shape(<<7, 14>>, <<-3, 0>>,  <<1, 1>>,  CurledFingers) ]

ShapeNames == DOMAIN Shapes

TipPositions == { <<8, 8>>, <<12, 8>> }

Hand(name, tip) ==
    [ i \in 1..21 |-> << Shapes[name][i][1] + tip[1], Shapes[name][i][2] + tip[2] >> ]

Hands == { Hand(n, t) : n \in ShapeNames, t \in TipPositions }

\* The pose provider's answers: detectForVideo throws, or returns a result
\* whose landmarks list is missing, empty, or holds one hand (numHands: 1).
DetectResults ==
    { [kind |-> "throws", landmarks |-> <<>>],
      [kind |-> "missing", landmarks |-> <<>>],
      [kind |-> "result", landmarks |-> <<>>] }
    \cup { [kind |-> "result", landmarks |-> <<lm>>] : lm \in Hands }

\* ------------------------------------------------------------------------
\* Canvases

\* Width and height of a canvas element that sets neither attribute.
DefaultCanvasW == 300
DefaultCanvasH == 150
DefaultCanvasSize == <<DefaultCanvasW, DefaultCanvasH>>

\* Native sizes the camera delivers (<<0, 0>>: not known).
Resolutions == { <<0, 0>>, <<640, 480>>, <<640, 360>> }

\* The pixels of the persistent surface the model observes.
Samples ==
    { <<170, 120>>, <<187, 120>>, <<200, 120>>, <<200, 117>>, <<200, 116>>,
      <<242, 120>>, <<170, 90>>, <<200, 90>>, <<160, 105>>, <<200, 105>>,
      <<90, 37>>, <<90, 34>> }

\* Pixel q belongs to a canvas of the given size.
InCanvas(q, size) == q[1] >= 0 /\ q[1] < size[1] /\ q[2] >= 0 /\ q[2] < size[2]

LineWidth == 6
CursorRadius == 10

ERASER_RADIUS(v) ==
    CASE v = "main"      -> 28
      [] v = "part_000"  -> 30
      [] v = "part_001a" -> 32
      [] v = "part_001b" -> 28

\* Along one axis: the distance from the coordinate c to the nearest and to
\* the farthest point of the side [i, i+1] of pixel i (1/GridN pixel).
NearSide(i, c) ==
    IF c < i * GridN THEN i * GridN - c
    ELSE IF c > (i + 1) * GridN THEN c - (i + 1) * GridN
    ELSE 0

FarSide(i, c) ==
    LET lo == Abs(c - i * GridN)
        hi == Abs(c - (i + 1) * GridN)
    IN  IF lo > hi THEN lo ELSE hi

\* The four corners of pixel q.
Corners(q) == { << (q[1] + i) * GridN, (q[2] + j) * GridN >> : i, j \in {0, 1} }

\* The point c lies within d of the segment a..b (strict: nearer than d).
NearSegment(c, a, b, d, strict) ==
    LET dx == b[1] - a[1]
        dy == b[2] - a[2]
        l2 == dx * dx + dy * dy
        wx == c[1] - a[1]
        wy == c[2] - a[2]
        t  == wx * dx + wy * dy
        cr == Abs(wx * dy - wy * dx)
        Within(s) == IF strict THEN s < d * d ELSE s <= d * d
    IN  IF t <= 0 THEN Within(wx * wx + wy * wy)
        ELSE IF t >= l2 THEN Within(Dist2(c, b))
        ELSE IF strict THEN ProdLess(cr, cr, d * d, l2)
        ELSE ~ProdLess(d * d, l2, cr, cr)

\* The sets of sample pixels a fill or stroke can change, when the shape
\* covers the pixels of inside wholly and those of touched \ inside partly.
\* A wholly covered pixel is always changed and an untouched one never; on
\* a partly covered pixel anti-aliasing leaves a fraction of the colour,
\* which the rasterizer may round to none or to all.
Rasters(inside, touched) == { inside \cup part : part \in SUBSET (touched \ inside) }

\* The filled circle arc(p.x, p.y, r, 0, 2 PI): a pixel is wholly covered
\* when its farthest corner is within r of p, and touched when part of it
\* of positive area is.
Disk(p, r) ==
    LET rr == r * GridN * r * GridN
        Far2(q) == FarSide(q[1], p[1]) * FarSide(q[1], p[1])
                   + FarSide(q[2], p[2]) * FarSide(q[2], p[2])
        Near2(q) == NearSide(q[1], p[1]) * NearSide(q[1], p[1])
                    + NearSide(q[2], p[2]) * NearSide(q[2], p[2])
    IN  Rasters({ q \in Samples : Far2(q) <= rr },
                { q \in Samples : Near2(q) < rr })

\* The stroke of width LineWidth with round caps along the segment
\* from..to: the points within LineWidth/2 of the segment, a convex shape.
\* A pixel is wholly covered when its four corners are; it is touched when
\* a corner is nearer than LineWidth/2 to the segment or an end point of
\* the segment is nearer than that to the pixel.  (Only pixels that meet
\* the bounding box of the shape need the test.)
Stroke(from, to) ==
    LET d == (LineWidth * GridN) \div 2
        Lo(i) == (IF from[i] < to[i] THEN from[i] ELSE to[i]) - d
        Hi(i) == (IF from[i] > to[i] THEN from[i] ELSE to[i]) + d
        near == { q \in Samples :
                    /\ (q[1] + 1) * GridN > Lo(1) /\ q[1] * GridN < Hi(1)
                    /\ (q[2] + 1) * GridN > Lo(2) /\ q[2] * GridN < Hi(2) }
        Reaches(q, e) == NearSide(q[1], e[1]) * NearSide(q[1], e[1])
                         + NearSide(q[2], e[2]) * NearSide(q[2], e[2]) < d * d
    IN  Rasters({ q \in near :
                    \A c \in Corners(q) : NearSegment(c, from, to, d, FALSE) },
                { q \in near :
                    \/ \E c \in Corners(q) : NearSegment(c, from, to, d, TRUE)
                    \/ Reaches(q, from)
                    \/ Reaches(q, to) })

\* The surfaces drawLine(from, to) can leave.  A zero-length line with a
\* round cap is painted as a dot by some browsers and pruned by others.
drawLine(surface, size, from, to) ==
    { surface \cup { q \in s : InCanvas(q, size) } : s \in Stroke(from, to) }
    \cup (IF from = to THEN { surface } ELSE {})

\* Mutant of eraseAt: the eraser takes the radius of the HUD cursor ring.
eraseAt_CursorRadius(v, surface, p) == { surface \ e : e \in Disk(p, CursorRadius) }

\* The surfaces the destination-out fill of the disk of radius
\* ERASER_RADIUS at p can leave.
eraseAt(v, surface, p) == { surface \ e : e \in Disk(p, ERASER_RADIUS(v)) }

\* clearRect(0, 0, width, height) of a canvas of the given size.
clearRect(surface, size) == { q \in surface : ~InCanvas(q, size) }

\* A blank HUD canvas: no ring, no text line, no pinchDist line.
EmptyHud == [cursor |-> <<>>, text |-> <<>>, pinchDist |-> <<>>]

\* drawHudCursor strokes one ring on the HUD canvas; what the canvas already
\* holds stays (only hudClear removes it).
drawHudCursor(v, layer, p, mode) ==
    [layer EXCEPT !.cursor =
        Append(@, [p |-> p,
                   radius |-> IF mode = "erase" THEN ERASER_RADIUS(v) ELSE CursorRadius,
                   mode |-> mode])]

\* The debug text of part_001a: one fillText per line, painted over what the
\* canvas already holds (only hudClear removes it). The pinchDist line is
\* carried apart from the other lines, as the squared grid distance it
\* prints: pds holds the value of that line, or nothing in a call without
\* it, and is added to the pinchDist lines the canvas holds.
hudText(layer, lines, pds) ==
    [layer EXCEPT !.text = @ \o lines, !.pinchDist = @ \o pds]

\* A canvas pair: sizes of both canvases, the persistent surface, the HUD.
\* Assigning canvas.width or canvas.height resets the canvas bitmap.
resizeCanvasesToVideo(v, vsize, c) ==
    IF vsize[1] = 0 \/ vsize[2] = 0 THEN c
    ELSE IF v = "part_001a" /\ c.drawSize = vsize THEN c
    ELSE [drawSize |-> vsize, hudSize |-> vsize, ink |-> {}, hud |-> EmptyHud]

\* part_001a calls resizeCanvasesToVideo at the top of every loop iteration.
ResizesInLoop(v) == v = "part_001a"

\* run() of part_001a has no capability check before setupCamera.
ChecksCapability(v) == v # "part_001a"

\* setupCamera of part_001b does not call video.play().
CallsPlay(v) == v # "part_001b"

\* ------------------------------------------------------------------------
\* State

VARIABLES
    variant,          \* which script the page runs
    hasGetUserMedia,  \* navigator.mediaDevices?.getUserMedia is present
    pc,               \* where run() and the frame loop stand
    videoSize,        \* <<video.videoWidth, video.videoHeight>>
    readyState,       \* video.readyState
    currentTime,      \* video.currentTime
    drawSize,         \* <<drawCanvas.width, drawCanvas.height>>
    hudSize,          \* <<hudCanvas.width, hudCanvas.height>>
    ink,              \* persistent surface: the inked sample pixels
    hud,              \* HUD layer content
    lastVideoTime,    \* lastVideoTime of run()
    lastPoint,        \* module-level lastPoint, Null or a pixel point
    alerts,           \* messages shown by alert(), in order
    gumCalls,         \* number of getUserMedia calls made
    createCalls,      \* number of createHandLandmarker calls made
    everScheduled,    \* requestAnimationFrame(loop) has been called
    frame,            \* the last processed frame (see FrameRecord)
    since             \* what came after the last processed frame: "skip"
                      \* (a skipped loop iteration), "clear" (a clear click)

vars == << variant, hasGetUserMedia, pc, videoSize, readyState, currentTime,
           drawSize, hudSize, ink, hud, lastVideoTime, lastPoint, alerts,
           gumCalls, createCalls, everScheduled, frame, since >>

envVars == << videoSize, readyState, currentTime >>
canvasVars == << drawSize, hudSize, ink, hud >>
startVars == << alerts, gumCalls, createCalls, everScheduled >>
loopVars == << lastVideoTime, lastPoint, frame >>

NoFrame == [mode |-> "NONE", p |-> Null, calls |-> <<>>, tip |-> Null,
            erase |-> FALSE, pinch |-> FALSE, erased |-> FALSE,
            afterClear |-> FALSE]

Call(fn, a, b) == [fn |-> fn, a |-> a, b |-> b]

Init ==
    /\ variant \in Variants
    /\ hasGetUserMedia \in BOOLEAN
    /\ pc = "init"
    /\ videoSize = <<0, 0>>
    /\ readyState = 0
    /\ currentTime = 0
    /\ drawSize = DefaultCanvasSize
    /\ hudSize = DefaultCanvasSize
    /\ ink = {}
    /\ hud = EmptyHud
    /\ lastVideoTime = -1
    /\ lastPoint = Null
    /\ alerts = <<>>
    /\ gumCalls = 0
    /\ createCalls = 0
    /\ everScheduled = FALSE
    /\ frame = NoFrame
    /\ since = {}

FailedToStart(v) ==
    IF v = "part_001a" THEN "Failed to start. Check console for the error."
    ELSE "Failed to start. Open DevTools console for details."

\* ------------------------------------------------------------------------
\* Startup: run(), setupCamera(), createHandLandmarker(), run().catch

\* run() up to its first await.
Run ==
    /\ pc = "init"
    /\ IF hasGetUserMedia
       THEN /\ pc' = "getUserMedia"
            /\ gumCalls' = gumCalls + 1
            /\ alerts' = alerts
       ELSE /\ gumCalls' = gumCalls
            /\ IF ChecksCapability(variant)
               THEN /\ alerts' = Append(alerts, "Camera API not supported in this browser.")
                    /\ pc' = "returned"
               ELSE \* TypeError inside setupCamera, caught by run().catch
                    /\ alerts' = Append(alerts, FailedToStart(variant))
                    /\ pc' = "failed"
    /\ UNCHANGED << variant, hasGetUserMedia, envVars, canvasVars, loopVars,
                    createCalls, everScheduled, since >>

GetUserMediaResolves ==
    /\ pc = "getUserMedia"
    /\ pc' = "metadata"
    /\ UNCHANGED << variant, hasGetUserMedia, envVars, canvasVars, loopVars,
                    startVars, since >>

GetUserMediaRejects ==
    /\ pc = "getUserMedia"
    /\ pc' = "failed"
    /\ alerts' = Append(alerts, FailedToStart(variant))
    /\ UNCHANGED << variant, hasGetUserMedia, envVars, canvasVars, loopVars,
                    gumCalls, createCalls, everScheduled, since >>

\* After the awaits of setupCamera: resizeCanvasesToVideo(), return to
\* run(), which calls createHandLandmarker().
FinishSetup(vsize) ==
    LET c == resizeCanvasesToVideo(variant, vsize,
                [drawSize |-> drawSize, hudSize |-> hudSize, ink |-> ink, hud |-> hud])
    IN  /\ drawSize' = c.drawSize
        /\ hudSize' = c.hudSize
        /\ ink' = c.ink
        /\ hud' = c.hud
        /\ createCalls' = createCalls + 1
        /\ pc' = "createLandmarker"

\* video.onloadedmetadata fires: the native size is known.
LoadedMetadata ==
    /\ pc = "metadata"
    /\ \E sz \in Resolutions \ {<<0, 0>>} :
         /\ videoSize' = sz
         /\ readyState' = 1
         /\ IF CallsPlay(variant)
            THEN /\ pc' = "play"
                 /\ UNCHANGED << canvasVars, createCalls >>
            ELSE FinishSetup(sz)
    /\ UNCHANGED << variant, hasGetUserMedia, currentTime, loopVars, alerts,
                    gumCalls, everScheduled, since >>

\* video.play() settles; a rejection is swallowed by .catch(() => {}).
PlaySettles ==
    /\ pc = "play"
    /\ FinishSetup(videoSize)
    /\ UNCHANGED << variant, hasGetUserMedia, envVars, loopVars, alerts,
                    gumCalls, everScheduled, since >>

LandmarkerResolves ==
    /\ pc = "createLandmarker"
    /\ lastVideoTime' = -1
    /\ everScheduled' = TRUE
    /\ pc' = "loop"
    /\ UNCHANGED << variant, hasGetUserMedia, envVars, canvasVars, lastPoint,
                    frame, alerts, gumCalls, createCalls, since >>

\* Mutant of LandmarkerRejects: the rejection is not caught, nobody is told.
LandmarkerRejects_Silent ==
    /\ pc = "createLandmarker"
    /\ pc' = "failed"
    /\ UNCHANGED << variant, hasGetUserMedia, envVars, canvasVars, loopVars,
                    startVars, since >>

LandmarkerRejects ==
    /\ pc = "createLandmarker"
    /\ pc' = "failed"
    /\ alerts' = Append(alerts, FailedToStart(variant))
    /\ UNCHANGED << variant, hasGetUserMedia, envVars, canvasVars, loopVars,
                    gumCalls, createCalls, everScheduled, since >>

\* ------------------------------------------------------------------------
\* The frame loop

\* hudClear(): clearRect over the whole HUD canvas.
hudClear(layer) == EmptyHud

ModeText(mode) ==
    CASE mode = "ERASE" -> "mode: FIST=ERASE"
      [] mode = "DRAW"  -> "mode: PINCH=DRAW"
      [] OTHER          -> "mode: IDLE"

\* erase: the value the erase gesture evaluated to (FALSE when there is no
\* hand to test).
Outcome(alive, lp, surface, layer, mode, p, calls) ==
    [alive |-> alive, lastPoint |-> lp, ink |-> surface, hud |-> layer,
     mode |-> mode, p |-> p, calls |-> calls, erase |-> FALSE]

\* Mutant of EraseBranch: the erase branch leaves lastPoint as it is.
EraseBranch_KeepsPoint(v, c, layer, p) ==
    { Outcome(TRUE, lastPoint, s, drawHudCursor(v, layer, p, "erase"),
              "ERASE", p, << Call("eraseAt", p, Null) >>)
      : s \in eraseAt(v, c.ink, p) }

\* if (openPalm) / if (fist): erase at the fingertip, forget the last point.
EraseBranch(v, c, layer, p) ==
    { Outcome(TRUE, Null, s, drawHudCursor(v, layer, p, "erase"),
              "ERASE", p, << Call("eraseAt", p, Null) >>)
      : s \in eraseAt(v, c.ink, p) }

\* Mutant of DrawBranch: the fingertip is not stored after drawing.
DrawBranch_ForgetsPoint(v, c, layer, lp, p) ==
    IF lp # Null
    THEN { Outcome(TRUE, lp, s, drawHudCursor(v, layer, p, "draw"),
                   "DRAW", p, << Call("drawLine", lp, p) >>)
           : s \in drawLine(c.ink, c.drawSize, lp, p) }
    ELSE { Outcome(TRUE, lp, c.ink, drawHudCursor(v, layer, p, "draw"),
                   "DRAW", p, <<>>) }

\* else if (pinch): join the stored point, if any, to the fingertip and
\* store the fingertip.
DrawBranch(v, c, layer, lp, p) ==
    IF lp # Null
    THEN { Outcome(TRUE, p, s, drawHudCursor(v, layer, p, "draw"),
                   "DRAW", p, << Call("drawLine", lp, p) >>)
           : s \in drawLine(c.ink, c.drawSize, lp, p) }
    ELSE { Outcome(TRUE, p, c.ink, drawHudCursor(v, layer, p, "draw"),
                   "DRAW", p, <<>>) }

\* Mutant of IdleBranch: the idle branch leaves lastPoint as it is.
IdleBranch_KeepsPoint(v, c, layer, p) ==
    Outcome(TRUE, lastPoint, c.ink, drawHudCursor(v, layer, p, "idle"), "IDLE", p, <<>>)

\* else: tracking but neither drawing nor erasing.
IdleBranch(v, c, layer, p) ==
    Outcome(TRUE, Null, c.ink, drawHudCursor(v, layer, p, "idle"), "IDLE", p, <<>>)

\* Mutant of NoHandsBranch: a frame without hands leaves lastPoint as it is.
NoHandsBranch_KeepsPoint(v, c, layer) ==
    Outcome(TRUE, lastPoint, c.ink,
            IF v = "part_001a"
            THEN hudText(layer, <<"HANDS: 0", "No landmarks detected">>, <<>>)
            ELSE layer,
            "NOHANDS", Null, <<>>)

\* The else of if (hands && hands.length > 0).
NoHandsBranch(v, c, layer) ==
    Outcome(TRUE, Null, c.ink,
            IF v = "part_001a"
            THEN hudText(layer, <<"HANDS: 0", "No landmarks detected">>, <<>>)
            ELSE layer,
            "NOHANDS", Null, <<>>)

\* The body of the if (video.readyState >= 2 && ...) block after
\* lastVideoTime is stored: the outcomes of processing one frame, given the
\* canvases c, the stored lastPoint lp and the pose provider's answer res.
\* alive = FALSE: an exception left the callback before
\* requestAnimationFrame(loop) was reached.
ProcessFrame(v, c, lp, res) ==
    LET h0 == hudClear(c.hud)
    IN  IF res.kind = "throws"
        THEN { Outcome(FALSE, lp, c.ink, h0, "DETECT_THROW", Null, <<>>) }
        ELSE IF res.kind = "missing" \/ Len(res.landmarks) = 0
        THEN { NoHandsBranch(v, c, h0) }
        ELSE
          LET lm == res.landmarks[1]
              p  == toPixel(LM(lm, 8), c.drawSize)
              Handled(erase) ==
                LET mode == Classify(v, erase, isPinching(v, lm))
                    h1   == IF v = "part_001a"
                            THEN hudText(h0, <<"HANDS: 1", ModeText(mode)>>,
                                         << pinchDistance(lm) >>)
                            ELSE h0
                IN  CASE mode = "THROW" ->
                           { Outcome(FALSE, lp, c.ink, h0, "THROW", p, <<>>) }
                      [] mode = "ERASE" -> EraseBranch(v, c, h1, p)
                      [] mode = "DRAW"  -> DrawBranch(v, c, h1, lp, p)
                      [] OTHER          -> { IdleBranch(v, c, h1, p) }
          IN  UNION { { [o EXCEPT !.erase = erase] : o \in Handled(erase) }
                      : erase \in EraseGesture(v, lm) }

\* What is remembered of a processed frame: the branch taken, the fingertip
\* pixel, the surface calls made, the index-tip landmark and the two
\* gestures of the first hand (none without a hand), whether ink was
\* removed, and whether a clear click had come since the frame before.
FrameRecord(v, o, res, before, sn) ==
    LET hasHand == res.kind = "result" /\ Len(res.landmarks) > 0
    IN  [mode |-> o.mode, p |-> o.p, calls |-> o.calls,
         tip |-> IF hasHand THEN LM(res.landmarks[1], 8) ELSE Null,
         erase |-> o.erase,
         pinch |-> hasHand /\ isPinching(v, res.landmarks[1]),
         erased |-> (before \ o.ink) # {},
         afterClear |-> "clear" \in sn]

\* Mutant of FrameReady: the video time is not compared.
FrameReady_AnyTime == readyState >= 2

\* The frame is processed when the video has data and its time advanced.
FrameReady == readyState >= 2 /\ currentTime # lastVideoTime

\* One requestAnimationFrame callback: loop().
Loop ==
    /\ pc = "loop"
    /\ LET c0 == [drawSize |-> drawSize, hudSize |-> hudSize, ink |-> ink, hud |-> hud]
           c1 == IF ResizesInLoop(variant)
                 THEN resizeCanvasesToVideo(variant, videoSize, c0)
                 ELSE c0
       IN  /\ drawSize' = c1.drawSize
           /\ hudSize' = c1.hudSize
           /\ IF FrameReady
              THEN \E res \in DetectResults :
                   \E o \in ProcessFrame(variant, c1, lastPoint, res) :
                     /\ lastVideoTime' = currentTime
                     /\ lastPoint' = o.lastPoint
                     /\ ink' = o.ink
                     /\ hud' = o.hud
                     /\ frame' = FrameRecord(variant, o, res, ink, since)
                     /\ pc' = IF o.alive THEN "loop" ELSE "dead"
                     /\ since' = {}
              ELSE /\ ink' = c1.ink
                   /\ hud' = c1.hud
                   /\ since' = since \cup {"skip"}
                   /\ UNCHANGED << pc, loopVars >>
    /\ UNCHANGED << variant, hasGetUserMedia, envVars, startVars >>

\* Mutant of Clear: the click also forgets the last point.
Clear_ForgetsPoint ==
    /\ pc # "init"
    /\ ink' = clearRect(ink, drawSize)
    /\ lastPoint' = Null
    /\ since' = since \cup {"clear"}
    /\ UNCHANGED << variant, hasGetUserMedia, pc, envVars, drawSize, hudSize,
                    hud, lastVideoTime, frame, startVars >>

\* The click handler of the clear button. The listener is added while the
\* script is evaluated, in the same synchronous run that calls run().
Clear ==
    /\ pc # "init"
    /\ ink' = clearRect(ink, drawSize)
    /\ since' = since \cup {"clear"}
    /\ UNCHANGED << variant, hasGetUserMedia, pc, envVars, drawSize, hudSize,
                    hud, loopVars, startVars >>

\* ------------------------------------------------------------------------
\* The environment: the camera and the video element

\* The video element plays the camera stream from the time its metadata
\* loaded (readyState HAVE_METADATA): nothing in the script pauses the video,
\* stops a track or resets srcObject, whether run() or loop() failed or not.
Streaming == readyState >= 1

VideoTick ==
    /\ Streaming
    /\ currentTime < MaxTime
    /\ currentTime' = currentTime + 1
    /\ UNCHANGED << variant, hasGetUserMedia, pc, videoSize, readyState,
                    canvasVars, loopVars, startVars, since >>

ReadyStateChange ==
    /\ Streaming
    /\ \E r \in {1, 2} \ {readyState} : readyState' = r
    /\ UNCHANGED << variant, hasGetUserMedia, pc, videoSize, currentTime,
                    canvasVars, loopVars, startVars, since >>

\* The native size of the stream changes (device rotation, constraints).
VideoResize ==
    /\ Streaming
    /\ \E sz \in Resolutions \ {videoSize} : videoSize' = sz
    /\ UNCHANGED << variant, hasGetUserMedia, pc, readyState, currentTime,
                    canvasVars, loopVars, startVars, since >>

Next ==
    \/ Run
    \/ GetUserMediaResolves
    \/ GetUserMediaRejects
    \/ LoadedMetadata
    \/ PlaySettles
    \/ LandmarkerResolves
    \/ LandmarkerRejects
    \/ Loop
    \/ Clear
    \/ VideoTick
    \/ ReadyStateChange
    \/ VideoResize

Spec == Init /\ [][Next]_vars

TypeOK ==
    /\ variant \in Variants
    /\ pc \in {"init", "getUserMedia", "metadata", "play", "createLandmarker",
               "loop", "dead", "failed", "returned"}
    /\ ink \subseteq Samples
    /\ lastVideoTime \in -1..MaxTime
    /\ since \subseteq {"skip", "clear"}

\* ------------------------------------------------------------------------
\* Properties

\* A step that processed a frame: the loop was scheduled, nothing has come
\* since the frame afterwards, and the step was not an event of the camera
\* (which leaves the loop's variables and both layers alone).
FrameStep ==
    /\ pc = "loop"
    /\ since' = {}
    /\ (since # {} \/ loopVars' # loopVars \/ ink' # ink \/ hud' # hud)

\* The video has current data and its time is not that of the frame
\* processed last.
VideoAdvanced == readyState >= 2 /\ currentTime # lastVideoTime

\* A step that changed the size of a canvas.
Resized == drawSize' # drawSize \/ hudSize' # hudSize

\* A loop iteration that skipped the frame body (one that changes nothing
\* at all after an earlier skip is a stuttering step).
SkipStep == "skip" \in since' /\ ("skip" \notin since \/ Resized)

\* A clear click.
ClearStep == "clear" \in since' /\ "clear" \notin since

\* The last processed frame had a hand.
HasHand == frame.tip # Null

DrawCalls(calls) == { i \in 1..Len(calls) : calls[i].fn = "drawLine" }
EraseCalls(calls) == { i \in 1..Len(calls) : calls[i].fn = "eraseAt" }

\* C1: a processed frame whose first hand makes the variant's erase gesture
\* is handled as ERASE (eraseAt called at the fingertip, no line drawn,
\* lastPoint null), whether or not the hand also pinches.
C1_ErasePrecedence ==
    (HasHand /\ frame.erase)
        => /\ frame.mode = "ERASE"
           /\ frame.calls = << Call("eraseAt", frame.p, Null) >>
           /\ lastPoint = Null

\* C2: a processed DRAW frame that follows a processed DRAW frame makes
\* exactly one drawLine call, from the earlier fingertip to the later one; a
\* DRAW frame that follows anything else makes none, and so does every
\* frame that is not DRAW.  Hence n consecutive DRAW frames draw n-1
\* segments and an isolated DRAW frame draws nothing.
C2_OneSegmentPerPair ==
    [][ FrameStep =>
          IF frame.mode = "DRAW" /\ frame'.mode = "DRAW"
          THEN frame'.calls = << Call("drawLine", frame.p, frame'.p) >>
          ELSE DrawCalls(frame'.calls) = {} ]_vars

\* The second of two DRAW frames at different fingertips has just drawn.
C2_Witness ==
    /\ frame.mode = "DRAW"
    /\ Len(frame.calls) = 1
    /\ frame.calls[1].fn = "drawLine"
    /\ frame.calls[1].a # frame.calls[1].b
    /\ frame.calls[1].b = lastPoint
    /\ since = {}
    /\ ink # {}

\* Pixels a segment from a to b may ink on a canvas of the given size.
SegmentPixels(size, a, b) ==
    { q \in UNION Stroke(a, b) : InCanvas(q, size) }

\* C3: every drawLine call joins the fingertips of two processed DRAW
\* frames with no processed frame between them (skipped iterations and
\* clear clicks may lie between them), and the surface gains ink only in
\* such a frame and only along that segment.
C3_NoStrokeAcrossGap ==
    [][ /\ FrameStep =>
             \A i \in DrawCalls(frame'.calls) :
                 /\ frame.mode = "DRAW"
                 /\ frame'.mode = "DRAW"
                 /\ frame'.calls[i].a = frame.p
                 /\ frame'.calls[i].b = frame'.p
        /\ \/ ink' \subseteq ink
           \/ /\ FrameStep
              /\ frame.mode = "DRAW"
              /\ frame'.mode = "DRAW"
              /\ ink' \subseteq ink \cup SegmentPixels(drawSize', frame.p, frame'.p) ]_vars

\* A DRAW frame that made no call although an earlier episode left a
\* stroke: a second draw episode has begun and nothing joined the two.
C3_Witness ==
    /\ frame.mode = "DRAW"
    /\ frame.calls = <<>>
    /\ lastPoint = frame.p
    /\ ink # {}

\* C4 (as stated): a processed frame without hands sets lastPoint to null,
\* calls neither drawLine nor eraseAt and leaves the surface as it was
\* before the iteration.
C4_NoHandsSurfaceUntouched ==
    [][ (FrameStep /\ frame'.mode = "NOHANDS")
          => /\ lastPoint' = Null
             /\ frame'.calls = <<>>
             /\ ink' = ink ]_vars

\* C4 (amended): a processed frame without hands sets lastPoint to null and
\* calls neither drawLine nor eraseAt; the surface is as it was before the
\* iteration unless the iteration resized the canvases (part_001a only),
\* which leaves it blank.
C4_NoHandsIdle ==
    [][ (FrameStep /\ frame'.mode = "NOHANDS")
          => /\ lastPoint' = Null
             /\ frame'.calls = <<>>
             /\ ink' = (IF Resized THEN {} ELSE ink)
             /\ (Resized => variant = "part_001a") ]_vars

\* A zero-hand frame has just been processed over a surface with ink.
C4_Witness ==
    /\ frame.mode = "NOHANDS"
    /\ lastPoint = Null
    /\ since = {}
    /\ ink # {}

\* C5: a processed frame whose first hand pinches (thumb tip to index tip
\* under the variant's threshold) and does not make the erase gesture is
\* handled as DRAW: no eraseAt, lastPoint is the frame's fingertip pixel.
C5_PinchDraws ==
    [][ (FrameStep /\ frame'.tip # Null /\ frame'.pinch /\ ~frame'.erase)
          => /\ frame'.mode = "DRAW"
             /\ EraseCalls(frame'.calls) = {}
             /\ lastPoint' = toPixel(frame'.tip, drawSize') ]_vars

\* What an ERASE frame at p does to the surface base: every sample pixel
\* that lies inside the disk of radius r (its farthest corner is within r of
\* p) is blank afterwards, every pixel outside the disk (no part of it is
\* nearer than r to p) is as in base, and a pixel on the rim of the disk
\* gains nothing.
ErasedFrom(base, after, p, r) ==
    LET rr == r * GridN * r * GridN
    IN  \A q \in Samples :
          IF FarSide(q[1], p[1]) * FarSide(q[1], p[1])
               + FarSide(q[2], p[2]) * FarSide(q[2], p[2]) <= rr
          THEN q \notin after
          ELSE IF NearSide(q[1], p[1]) * NearSide(q[1], p[1])
                    + NearSide(q[2], p[2]) * NearSide(q[2], p[2]) >= rr
          THEN (q \in after) <=> (q \in base)
          ELSE q \in after => q \in base

\* Frames and iterations that must not bring erased pixels back.
Passive ==
    \/ SkipStep
    \/ FrameStep /\ frame'.mode \in {"IDLE", "NOHANDS"}

\* C6 (as stated): an ERASE frame at P blanks the disk of radius
\* ERASER_RADIUS around P, leaves every pixel outside it as it was before
\* the iteration, and sets lastPoint to null; IDLE and skipped iterations
\* restore nothing.
C6_EraseExactDisk ==
    [][ /\ (FrameStep /\ frame'.mode = "ERASE")
              => /\ ErasedFrom(ink, ink', frame'.p, ERASER_RADIUS(variant))
                 /\ lastPoint' = Null
        /\ Passive => ink' \subseteq ink ]_vars

\* C6 (amended): the same, with "as it was" taken after the canvas resize
\* that part_001a may perform at the top of the iteration (a resize leaves
\* the whole surface blank).
C6_EraseDiskAfterResize ==
    [][ /\ (FrameStep /\ frame'.mode = "ERASE")
              => /\ ErasedFrom(IF Resized THEN {} ELSE ink, ink', frame'.p,
                               ERASER_RADIUS(variant))
                 /\ lastPoint' = Null
                 /\ (Resized => variant = "part_001a")
        /\ Passive => ink' \subseteq ink ]_vars

\* An ERASE frame has just removed ink inside the disk and left ink
\* outside it.
C6_Witness ==
    /\ frame.mode = "ERASE"
    /\ frame.erased
    /\ since = {}
    /\ ink # {}
    /\ lastPoint = Null

\* C7: a clear click leaves the surface empty and changes nothing else
\* (lastPoint, HUD, lastVideoTime, canvas sizes, the loop's position); a
\* DRAW frame that follows a DRAW frame with a clear click between them
\* still calls drawLine from the earlier fingertip, and the surface then
\* holds that segment alone.
C7_ClearOnlyWipes ==
    [][ /\ ClearStep
           => /\ ink' = {}
              /\ UNCHANGED << lastPoint, hud, lastVideoTime, drawSize, hudSize,
                              pc, frame, envVars, startVars >>
        /\ (FrameStep /\ "clear" \in since /\ frame.mode = "DRAW" /\ frame'.mode = "DRAW")
           => /\ lastPoint = frame.p
              /\ frame'.calls = << Call("drawLine", frame.p, frame'.p) >>
              /\ ink' \in drawLine({}, drawSize', frame.p, frame'.p) ]_vars

\* A stroke drawn by the first DRAW frame after a clear click is all the
\* surface holds.
C7_Witness ==
    /\ frame.afterClear
    /\ frame.mode = "DRAW"
    /\ Len(frame.calls) = 1
    /\ frame.calls[1].a # frame.calls[1].b
    /\ ink \in drawLine({}, drawSize, frame.calls[1].a, frame.calls[1].b)
    /\ ink # {}

\* C8: when a frame is processed, both canvases have the width and height
\* of the video's current native size, if that size is nonzero.
C8_CanvasesMatchVideo ==
    [][ (FrameStep /\ videoSize[1] # 0 /\ videoSize[2] # 0)
          => /\ drawSize' = videoSize
             /\ hudSize' = videoSize ]_vars

\* C9 (as stated): a frame is processed only when the video is ready and
\* its time differs from lastVideoTime; an iteration that skips changes
\* none of lastPoint, surface, HUD, lastVideoTime.
C9_SkipChangesNothing ==
    [][ /\ SkipStep => ~VideoAdvanced /\ UNCHANGED << lastPoint, ink, hud, lastVideoTime >>
        /\ FrameStep => VideoAdvanced /\ lastVideoTime' = currentTime ]_vars

\* C9 (amended): an iteration skips exactly when the video is not ready or
\* its time equals lastVideoTime; a skipping iteration runs no inference
\* and keeps lastPoint and lastVideoTime, and it keeps the surface and the
\* HUD too unless it resized the canvases (part_001a only, when the video's
\* nonzero native size differs from the draw canvas), which blanks both.
\* A processed frame stores the video time, so inference runs at most once
\* per consecutive distinct timestamp.
C9_SkipOnlyResizes ==
    [][ /\ SkipStep
           => /\ ~VideoAdvanced
              /\ UNCHANGED << lastPoint, lastVideoTime, frame, pc >>
              /\ IF Resized
                 THEN /\ variant = "part_001a"
                      /\ videoSize[1] # 0 /\ videoSize[2] # 0
                      /\ drawSize # videoSize
                      /\ drawSize' = videoSize /\ hudSize' = videoSize
                      /\ ink' = {} /\ hud' = EmptyHud
                 ELSE UNCHANGED << ink, hud, drawSize, hudSize >>
        /\ FrameStep => VideoAdvanced /\ lastVideoTime' = currentTime ]_vars

\* An iteration skipped at an unchanged timestamp, after a processed frame.
C9_Witness ==
    /\ pc = "loop"
    /\ "skip" \in since
    /\ readyState >= 2
    /\ currentTime = lastVideoTime
    /\ frame.mode # "NONE"
    /\ ink # {}

StartFailed == pc \in {"failed", "returned"}

\* C10: without the camera capability startup fails at once, and a
\* rejection of getUserMedia or of the landmarker creation fails it; in a
\* failed startup the user has been alerted exactly once, the loop was
\* never scheduled, no frame was processed and the surface is blank; the
\* failure is final: nothing is called again and the state stays failed.
C10_StartupFailureFatal ==
    /\ [](/\ (~hasGetUserMedia /\ pc # "init") => StartFailed
          /\ StartFailed => /\ Len(alerts) = 1
                            /\ ~everScheduled
                            /\ frame = NoFrame
                            /\ lastPoint = Null
                            /\ ink = {}
                            /\ gumCalls <= 1 /\ createCalls <= 1)
    /\ [][ /\ StartFailed => UNCHANGED << pc, alerts, gumCalls, createCalls,
                                          everScheduled, frame, lastPoint, ink >>
           /\ (pc \in {"getUserMedia", "createLandmarker"} /\ pc' \notin {pc, "metadata", "loop"})
                 => pc' = "failed" /\ Len(alerts') = 1 ]_vars

\* The landmarker creation rejected, the user was alerted, and a clear
\* click came afterwards.
C10_Witness ==
    /\ pc = "failed"
    /\ createCalls = 1
    /\ Len(alerts) = 1
    /\ "clear" \in since

\* C11 (as stated): before any frame lastPoint is null; once a frame has
\* been processed, lastPoint is non-null exactly when the last processed
\* frame took the DRAW branch, and then it is that frame's index-fingertip
\* pixel; after an ERASE, IDLE or zero-hand frame it is null.
C11_LastPointIffDrawAlways ==
    /\ frame = NoFrame => lastPoint = Null
    /\ frame # NoFrame
         => /\ (lastPoint # Null) <=> (frame.mode = "DRAW")
            /\ frame.mode = "DRAW" => lastPoint = frame.p

\* C11 (amended): the same for every processed frame whose detectForVideo
\* call returned; an iteration whose detectForVideo call throws classifies
\* nothing and leaves lastPoint as it was, and from then on lastPoint never
\* changes (it stays non-null when the frame before was a DRAW frame).
C11_LastPointIffDraw ==
    /\ [](/\ frame = NoFrame => lastPoint = Null
          /\ (frame # NoFrame /\ frame.mode # "DETECT_THROW")
               => /\ (lastPoint # Null) <=> (frame.mode = "DRAW")
                  /\ frame.mode = "DRAW" => lastPoint = frame.p)
    /\ [][ frame'.mode = "DETECT_THROW" => lastPoint' = lastPoint ]_vars

\* detectForVideo threw in the iteration after a DRAW frame: the loop is
\* dead and lastPoint still holds the fingertip of the DRAW frame.
C11_Witness ==
    /\ frame.mode = "DETECT_THROW"
    /\ pc = "dead"
    /\ lastPoint # Null
    /\ since = {}

\* C12: the frame loop stops only in an iteration whose detectForVideo call
\* threw: an iteration whose pose result has no hand or a 21-point hand
\* completes and schedules the next one.  Once an iteration has thrown the
\* loop never runs again: lastPoint, the record of the last frame and the
\* HUD stay as they are, and the surface changes only by being cleared.
C12_LoopStopsOnlyOnDetectThrow ==
    [][ /\ (pc = "loop" /\ pc' # "loop") => frame'.mode = "DETECT_THROW"
        /\ pc = "dead"
             => /\ UNCHANGED << pc, lastPoint, lastVideoTime, frame, hud,
                                drawSize, hudSize >>
                /\ (ink' = ink \/ ink' = {}) ]_vars
====
